---- MODULE Spec2Model ----
(***************************************************************************)
(* A model of src/store/disk_lock.rs: the process-wide DISK_LOCK and the   *)
(* LockedFile wrapper that forwards every I/O operation to the file handle *)
(* it owns.                                                                *)
(*                                                                         *)
(* Every LockedFile method is two statements,                              *)
(*     let _guard = self.lock();   self.file.<op>(args)                    *)
(* and is modelled by three steps of the calling thread:                   *)
(*   idle --<op>(t, args)--> call --forward(t, oc)--> drop --return(t)--> idle *)
(* <op> evaluates self.lock() and binds _guard; forward is the call on the *)
(* underlying std::fs::File, atomic on the storage, with the outcome oc    *)
(* the operating system picks (success, a short write, an error); return  *)
(* is the end of the method's scope, where _guard is dropped and the       *)
(* result of the forwarded call is handed to the caller.                   *)
(***************************************************************************)
EXTENDS Integers, Sequences, FiniteSets, TLC

\* ------------------------------------------------------------------ bounds
MaxSize == 2    \* longest file, and largest offset, explored
MaxBuf == 2     \* longest caller buffer

\* The program never looks at a byte it moves: two values tell a byte written
\* from the zero a gap is filled with.
Bytes == {0, 1}
Threads == {"t1", "t2"}
Errors == {"EIO", "EINTR"}
Outcomes == {"ok", "short"} \cup Errors

Min(a, b) == IF a < b THEN a ELSE b
Max(a, b) == IF a > b THEN a ELSE b

\* All byte strings of length lo..hi.
Strings(lo, hi) == UNION {[1..n -> Bytes] : n \in lo..hi}

VARIABLES
    DISK_LOCK,  \* the global RwLock: [inits, readers, writer]
    disk,       \* the bytes of the storage the wrapped files are open on
    handle,     \* handle[t]: the LockedFile thread t owns: [made, file, no_lock]
    pc,         \* pc[t]: "idle" | "call" | "drop"
    op,         \* op[t]: the method thread t is in, with its arguments
    guard,      \* guard[t]: the value bound to _guard: "None" | "Read" | "Write"
    ret,        \* ret[t]: the result of the method (of the last one, when idle)
    calls,      \* calls[t]: results of the calls the method made on self.file
    sdisk,      \* reference run: the same calls made directly on the files
    sfile,      \* reference run: sfile[t] is the plain File of thread t
    sret,       \* reference run: the result of the direct call
    lastmod,    \* the last successful change of the storage (history)
    twin        \* twin run: the same calls on handles with the other no_lock,
                \* over their own storage: [disk, file, ret]

vars == <<DISK_LOCK, disk, handle, pc, op, guard, ret, calls, sdisk, sfile, sret, lastmod, twin>>

\* ----------------------------------------------------------------- results
\* io::Result<T>: Ok carries a count / position / length n and the bytes read.
Ok(n, buf) == [ok |-> TRUE, n |-> n, buf |-> buf, err |-> "none"]
Err(e) == [ok |-> FALSE, n |-> 0, buf |-> <<>>, err |-> e]
Pending == [ok |-> FALSE, n |-> 0, buf |-> <<>>, err |-> "pending"]

\* --------------------------------------------------------------- DISK_LOCK
\* Faulty variant of the lazy initialization: every dereference builds the lock.
Deref_again(lk) == [lk EXCEPT !.inits = @ + 1, !.readers = {}, !.writer = "none"]

\* lazy_static: the RwLock is built by the first dereference, once.
Deref(lk) == IF lk.inits = 0 THEN [lk EXCEPT !.inits = 1] ELSE lk

\* RwLock::read() can be granted when no writer holds the lock.
CanRead(lk) == lk.writer = "none"
\* RwLock::write() can be granted when nobody holds the lock.
CanWrite(lk) == lk.writer = "none" /\ lk.readers = {}

RwLock_read(lk, t) == [Deref(lk) EXCEPT !.readers = @ \cup {t}]
RwLock_write(lk, t) == [Deref(lk) EXCEPT !.writer = t]

\* Dropping a guard releases the hold it stands for; dropping None does nothing.
DropGuard(lk, t, g) ==
    CASE g = "Read" -> [lk EXCEPT !.readers = @ \ {t}]
      [] g = "Write" -> [lk EXCEPT !.writer = "none"]
      [] OTHER -> lk

\* -------------------------------------------------------- LockedFile::lock
\* Faulty variants of lock: an acquisition for every handle, whatever no_lock
\* says, an exclusive acquisition, and a hold taken with no guard returned.
lock_always(self, lk, t) == [guard |-> "Read", lk |-> RwLock_read(lk, t)]

lock_exclusive(self, lk, t) ==
    IF self.no_lock THEN [guard |-> "None", lk |-> lk]
    ELSE [guard |-> "Write", lk |-> RwLock_write(lk, t)]

lock_leak(self, lk, t) ==
    IF self.no_lock THEN [guard |-> "None", lk |-> lk]
    ELSE [guard |-> "None", lk |-> RwLock_read(lk, t)]

\* Faulty variant of lock, continued: the acquisition the signature promises.
lock_restored(self, lk, t) ==
    IF self.no_lock THEN [guard |-> "None", lk |-> lk]
    ELSE [guard |-> "Read", lk |-> RwLock_read(lk, t)]

\* fn lock(&self) -> Option<RwLockReadGuard>: None on both branches; the
\* acquisition Some(DISK_LOCK.read()) is commented out, so DISK_LOCK is not
\* even dereferenced.
lock(self, lk, t) ==
    IF self.no_lock THEN [guard |-> "None", lk |-> lk]
    ELSE [guard |-> "None", lk |-> lk]

\* Whether the acquisition a guard stands for can be granted now.
Granted(g, lk) ==
    CASE g = "Read" -> CanRead(lk)
      [] g = "Write" -> CanWrite(lk)
      [] OTHER -> TRUE

\* ---------------------------------------------------------- std::fs::File
\* A File is a cursor into the storage: [pos]. Every operation takes the file,
\* the storage and the outcome oc and gives the file and storage after it, the
\* result, and the log of calls made (one).
Return(f, d, res) == [file |-> f, disk |-> d, res |-> res, log |-> <<res>>]

\* The bytes of d at pos .. pos+n-1, cut at the end of the file.
ReadBytes(d, pos, n) == SubSeq(d, pos + 1, Min(pos + n, Len(d)))

\* d with data stored at pos; a gap past the old end reads as zero.
WriteBytes(d, pos, data) ==
    IF Len(data) = 0 THEN d
    ELSE [i \in 1..Max(Len(d), pos + Len(data)) |->
            IF i > pos /\ i <= pos + Len(data) THEN data[i - pos]
            ELSE IF i <= Len(d) THEN d[i] ELSE 0]

\* How many of n bytes a write stores: all, or one less on a short write.
Stored(n, oc) == IF oc = "short" /\ n >= 2 THEN n - 1 ELSE n

Concat(bufs) == IF Len(bufs) = 0 THEN <<>>
                ELSE IF Len(bufs) = 1 THEN bufs[1]
                ELSE bufs[1] \o bufs[2]

Total(lens) == IF Len(lens) = 0 THEN 0
               ELSE IF Len(lens) = 1 THEN lens[1]
               ELSE lens[1] + lens[2]

File_read(f, d, n, oc) ==
    IF oc \in Errors THEN Return(f, d, Err(oc))
    ELSE LET got == ReadBytes(d, f.pos, n)
         IN Return([f EXCEPT !.pos = @ + Len(got)], d, Ok(Len(got), got))

File_read_vectored(f, d, lens, oc) == File_read(f, d, Total(lens), oc)

File_write(f, d, buf, oc) ==
    IF oc \in Errors THEN Return(f, d, Err(oc))
    ELSE LET k == Stored(Len(buf), oc)
         IN Return([f EXCEPT !.pos = @ + k],
                   WriteBytes(d, f.pos, SubSeq(buf, 1, k)), Ok(k, <<>>))

File_write_vectored(f, d, bufs, oc) == File_write(f, d, Concat(bufs), oc)

\* flush on a File does nothing and cannot fail.
File_flush(f, d, oc) == Return(f, d, Ok(0, <<>>))

\* SeekFrom::Start(off) | Current(off) | End(off); a negative target is EINVAL.
File_seek(f, d, whence, off, oc) ==
    LET base == CASE whence = "Start" -> 0
                  [] whence = "Current" -> f.pos
                  [] OTHER -> Len(d)
        target == base + off
    IN IF oc \in Errors THEN Return(f, d, Err(oc))
       ELSE IF target < 0 THEN Return(f, d, Err("EINVAL"))
       ELSE Return([f EXCEPT !.pos = target], d, Ok(target, <<>>))

File_read_at(f, d, pos, n, oc) ==
    IF oc \in Errors THEN Return(f, d, Err(oc))
    ELSE LET got == ReadBytes(d, pos, n)
         IN Return(f, d, Ok(Len(got), got))

File_write_at(f, d, pos, buf, oc) ==
    IF oc \in Errors THEN Return(f, d, Err(oc))
    ELSE LET k == Stored(Len(buf), oc)
         IN Return(f, WriteBytes(d, pos, SubSeq(buf, 1, k)), Ok(k, <<>>))

File_metadata(f, d, oc) ==
    IF oc \in Errors THEN Return(f, d, Err(oc))
    ELSE Return(f, d, Ok(Len(d), <<>>))

File_sync_all(f, d, oc) ==
    IF oc \in Errors THEN Return(f, d, Err(oc)) ELSE Return(f, d, Ok(0, <<>>))

File_sync_data(f, d, oc) ==
    IF oc \in Errors THEN Return(f, d, Err(oc)) ELSE Return(f, d, Ok(0, <<>>))

File_set_len(f, d, size, oc) ==
    IF oc \in Errors THEN Return(f, d, Err(oc))
    ELSE Return(f, [i \in 1..size |-> IF i <= Len(d) THEN d[i] ELSE 0], Ok(0, <<>>))

\* -------------------------------------------------------------- LockedFile
\* The method a thread is in and its arguments; cur is the stream cursor the
\* handle had when the method was entered.
Op(name) == [name |-> name, whence |-> "Start", off |-> 0, n |-> 0,
             lens |-> <<>>, buf |-> <<>>, bufs |-> <<>>, cur |-> 0]
NoOp == Op("none")

\* The methods whose first statement is  let _guard = self.lock();
Guarded == {"read", "read_vectored", "write", "write_vectored", "flush", "seek",
            "read_at", "write_at", "WriteAt_flush", "sync_all", "sync_data", "set_len"}

NoHandle == [made |-> FALSE, file |-> [pos |-> 0], no_lock |-> FALSE]

\* Faulty variant of new: the default turned round.
LockedFile_new_nolock(file) == [made |-> TRUE, file |-> file, no_lock |-> TRUE]

LockedFile_new_lock(file, no_lock) == [made |-> TRUE, file |-> file, no_lock |-> no_lock]
LockedFile_new(file) == LockedFile_new_lock(file, FALSE)

\* Faulty variants of the forwarding methods: a positioned call forwarded to
\* the sequential one, a positioned write done as seek-then-write, a sync that
\* truncates, a set_len that never shrinks, a write retried after an error, a
\* write_at that never leaves a gap, and a read that leaves the cursor.
LockedFile_read_at_seq(self, d, pos, n, oc) == File_read(self.file, d, n, oc)

LockedFile_write_at_seq(self, d, pos, buf, oc) == File_write(self.file, d, buf, oc)

LockedFile_write_at_seek(self, d, pos, buf, oc) ==
    File_write([self.file EXCEPT !.pos = pos], d, buf, oc)

LockedFile_write_at_clamp(self, d, pos, buf, oc) ==
    File_write_at(self.file, d, Min(pos, Len(d)), buf, oc)

LockedFile_read_pread(self, d, n, oc) == File_read_at(self.file, d, self.file.pos, n, oc)

LockedFile_sync_data_skip(self, d, oc) ==
    IF self.no_lock THEN Return(self.file, d, Ok(0, <<>>))
    ELSE File_sync_data(self.file, d, oc)

LockedFile_sync_all_trunc(self, d, oc) == File_set_len(self.file, d, 0, oc)

LockedFile_set_len_grow(self, d, size, oc) ==
    File_set_len(self.file, d, Max(size, Len(d)), oc)

LockedFile_write_retry(self, d, buf, oc) ==
    LET first == File_write(self.file, d, buf, oc)
        again == File_write(first.file, first.disk, buf, "ok")
    IN IF first.res.ok THEN first
       ELSE [again EXCEPT !.log = first.log \o again.log]

\* Each method's second statement: the identically named call on self.file,
\* whose value is the method's value.
LockedFile_metadata(self, d, oc) == File_metadata(self.file, d, oc)
LockedFile_sync_all(self, d, oc) == File_sync_all(self.file, d, oc)
LockedFile_sync_data(self, d, oc) == File_sync_data(self.file, d, oc)
LockedFile_set_len(self, d, size, oc) == File_set_len(self.file, d, size, oc)
LockedFile_read(self, d, n, oc) == File_read(self.file, d, n, oc)
LockedFile_read_vectored(self, d, lens, oc) == File_read_vectored(self.file, d, lens, oc)
LockedFile_write(self, d, buf, oc) == File_write(self.file, d, buf, oc)
LockedFile_write_vectored(self, d, bufs, oc) == File_write_vectored(self.file, d, bufs, oc)
LockedFile_flush(self, d, oc) == File_flush(self.file, d, oc)
LockedFile_seek(self, d, whence, off, oc) == File_seek(self.file, d, whence, off, oc)
LockedFile_read_at(self, d, pos, n, oc) == File_read_at(self.file, d, pos, n, oc)
LockedFile_write_at(self, d, pos, buf, oc) == File_write_at(self.file, d, pos, buf, oc)
\* WriteAt::flush is Write::flush(self).
LockedFile_WriteAt_flush(self, d, oc) == LockedFile_flush(self, d, oc)

\* The forwarded call of the method o on the handle self.
LockedFile_apply(self, d, o, oc) ==
    CASE o.name = "metadata" -> LockedFile_metadata(self, d, oc)
      [] o.name = "sync_all" -> LockedFile_sync_all(self, d, oc)
      [] o.name = "sync_data" -> LockedFile_sync_data(self, d, oc)
      [] o.name = "set_len" -> LockedFile_set_len(self, d, o.off, oc)
      [] o.name = "read" -> LockedFile_read(self, d, o.n, oc)
      [] o.name = "read_vectored" -> LockedFile_read_vectored(self, d, o.lens, oc)
      [] o.name = "write" -> LockedFile_write(self, d, o.buf, oc)
      [] o.name = "write_vectored" -> LockedFile_write_vectored(self, d, o.bufs, oc)
      [] o.name = "flush" -> LockedFile_flush(self, d, oc)
      [] o.name = "seek" -> LockedFile_seek(self, d, o.whence, o.off, oc)
      [] o.name = "read_at" -> LockedFile_read_at(self, d, o.off, o.n, oc)
      [] o.name = "write_at" -> LockedFile_write_at(self, d, o.off, o.buf, oc)
      [] OTHER -> LockedFile_WriteAt_flush(self, d, oc)

\* The same call made directly on a plain File f (the reference run).
File_apply(f, d, o, oc) ==
    CASE o.name = "metadata" -> File_metadata(f, d, oc)
      [] o.name = "sync_all" -> File_sync_all(f, d, oc)
      [] o.name = "sync_data" -> File_sync_data(f, d, oc)
      [] o.name = "set_len" -> File_set_len(f, d, o.off, oc)
      [] o.name = "read" -> File_read(f, d, o.n, oc)
      [] o.name = "read_vectored" -> File_read_vectored(f, d, o.lens, oc)
      [] o.name = "write" -> File_write(f, d, o.buf, oc)
      [] o.name = "write_vectored" -> File_write_vectored(f, d, o.bufs, oc)
      [] o.name = "seek" -> File_seek(f, d, o.whence, o.off, oc)
      [] o.name = "read_at" -> File_read_at(f, d, o.off, o.n, oc)
      [] o.name = "write_at" -> File_write_at(f, d, o.off, o.buf, oc)
      [] OTHER -> File_flush(f, d, oc)

\* The outcomes the operating system can give a call: flush never fails, and
\* only a write of two bytes or more can be short.
Possible(o, oc) ==
    CASE oc = "ok" -> TRUE
      [] oc = "short" ->
            \/ o.name \in {"write", "write_at"} /\ Len(o.buf) >= 2
            \/ o.name = "write_vectored" /\ Len(Concat(o.bufs)) >= 2
      [] OTHER -> o.name \notin {"flush", "WriteAt_flush"}

\* The history of the storage: what the last successful change of it was.
\* grew says that the change began past the end of the file or made the file
\* longer by set_len. For a write_at that grew and for a set_len, before is the
\* content it found. For a set_len undo says that it cut the
\* file back to the length it had before the set_len just before it extended
\* it, orig being the content before that extension.
NoMod == [name |-> "none", pos |-> 0, data |-> <<>>, size |-> 0, before |-> <<>>,
          undo |-> FALSE, orig |-> <<>>, grew |-> FALSE]

Modified(last, d, o, res) ==
    IF ~res.ok THEN last
    ELSE CASE o.name \in {"write", "write_vectored"} /\ res.n > 0 ->
                [name |-> "write", pos |-> o.cur,
                 data |-> SubSeq(IF o.name = "write" THEN o.buf ELSE Concat(o.bufs), 1, res.n),
                 size |-> 0, before |-> <<>>, undo |-> FALSE, orig |-> <<>>,
                 grew |-> Len(d) < o.cur]
           [] o.name = "write_at" /\ res.n > 0 ->
                [name |-> "write_at", pos |-> o.off, data |-> SubSeq(o.buf, 1, res.n),
                 size |-> 0, before |-> IF Len(d) < o.off THEN d ELSE <<>>,
                 undo |-> FALSE, orig |-> <<>>, grew |-> Len(d) < o.off]
           [] o.name = "set_len" ->
                LET undo == /\ last.name = "set_len"
                            /\ last.size > Len(last.before)
                            /\ o.off = Len(last.before)
                IN [name |-> "set_len", pos |-> 0, data |-> <<>>, size |-> o.off,
                    before |-> d, undo |-> undo,
                    orig |-> IF undo THEN last.before ELSE <<>>,
                    grew |-> Len(d) < o.off]
           [] OTHER -> last

\* ------------------------------------------------------------------- steps
Init ==
    /\ DISK_LOCK = [inits |-> 0, readers |-> {}, writer |-> "none"]
    /\ disk = <<>>
    /\ handle = [t \in Threads |-> NoHandle]
    /\ pc = [t \in Threads |-> "idle"]
    /\ op = [t \in Threads |-> NoOp]
    /\ guard = [t \in Threads |-> "None"]
    /\ ret = [t \in Threads |-> Pending]
    /\ calls = [t \in Threads |-> <<>>]
    /\ sdisk = <<>>
    /\ sfile = [t \in Threads |-> [pos |-> 0]]
    /\ sret = [t \in Threads |-> Pending]
    /\ lastmod = NoMod
    /\ twin = [disk |-> <<>>, file |-> [t \in Threads |-> [pos |-> 0]],
               ret |-> [t \in Threads |-> Pending]]

\* LockedFile::new_lock(file, no_lock) around a freshly opened file.
new_lock(t, no_lock) ==
    /\ ~handle[t].made
    /\ handle' = [handle EXCEPT ![t] = LockedFile_new_lock([pos |-> 0], no_lock)]
    /\ UNCHANGED <<DISK_LOCK, disk, pc, op, guard, ret, calls, sdisk, sfile, sret, lastmod, twin>>

\* LockedFile::new(file)
new(t) ==
    /\ ~handle[t].made
    /\ handle' = [handle EXCEPT ![t] = LockedFile_new([pos |-> 0])]
    /\ UNCHANGED <<DISK_LOCK, disk, pc, op, guard, ret, calls, sdisk, sfile, sret, lastmod, twin>>

\* The state a method is entered in, once its guard g is bound.
Entered(t, o, g) ==
    /\ guard' = [guard EXCEPT ![t] = g]
    /\ pc' = [pc EXCEPT ![t] = "call"]
    /\ op' = [op EXCEPT ![t] = [o EXCEPT !.cur = handle[t].file.pos]]
    /\ ret' = [ret EXCEPT ![t] = Pending]
    /\ calls' = [calls EXCEPT ![t] = <<>>]
    /\ sret' = [sret EXCEPT ![t] = Pending]
    /\ twin' = [twin EXCEPT !.ret[t] = Pending]
    /\ UNCHANGED <<disk, handle, sdisk, sfile, lastmod>>

\* Faulty variant of the first statement: an exclusive hold that is taken and
\* forgotten.
Enter_forget(t, o) ==
    /\ pc[t] = "idle"
    /\ handle[t].made
    /\ handle[t].no_lock \/ CanWrite(DISK_LOCK)
    /\ DISK_LOCK' = IF handle[t].no_lock THEN DISK_LOCK ELSE RwLock_write(DISK_LOCK, t)
    /\ Entered(t, o, "None")

\* let _guard = self.lock();  the thread waits while the hold the guard stands
\* for cannot be granted.
Enter(t, o) ==
    /\ pc[t] = "idle"
    /\ handle[t].made
    /\ LET l == lock(handle[t], DISK_LOCK, t)
       IN /\ Granted(l.guard, DISK_LOCK)
          /\ DISK_LOCK' = l.lk
          /\ Entered(t, o, l.guard)

\* Faulty variant of metadata: it takes a shared hold like the other methods.
metadata_guarded(t) ==
    /\ pc[t] = "idle"
    /\ handle[t].made
    /\ CanRead(DISK_LOCK)
    /\ DISK_LOCK' = RwLock_read(DISK_LOCK, t)
    /\ Entered(t, Op("metadata"), "Read")

\* metadata takes no guard: it goes straight to self.file.metadata().
metadata(t) ==
    /\ pc[t] = "idle"
    /\ handle[t].made
    /\ DISK_LOCK' = DISK_LOCK
    /\ Entered(t, Op("metadata"), "None")

sync_all(t) == Enter(t, Op("sync_all"))
sync_data(t) == Enter(t, Op("sync_data"))
flush(t) == Enter(t, Op("flush"))
WriteAt_flush(t) == Enter(t, Op("WriteAt_flush"))

set_len(t, size) == Enter(t, [Op("set_len") EXCEPT !.off = size])

read(t, n) == Enter(t, [Op("read") EXCEPT !.n = n])

read_vectored(t, lens) == Enter(t, [Op("read_vectored") EXCEPT !.lens = lens])

\* The model stops a file from growing past MaxSize.
write(t, buf) ==
    /\ handle[t].file.pos + Len(buf) <= MaxSize
    /\ Enter(t, [Op("write") EXCEPT !.buf = buf])

write_vectored(t, bufs) ==
    /\ handle[t].file.pos + Len(Concat(bufs)) <= MaxSize
    /\ Enter(t, [Op("write_vectored") EXCEPT !.bufs = bufs])

\* The model keeps the cursor within MaxSize.
seek(t, whence, off) ==
    /\ whence = "Start" => off >= 0
    /\ whence = "Current" => handle[t].file.pos + off <= MaxSize
    /\ whence = "End" => off <= 0
    /\ Enter(t, [Op("seek") EXCEPT !.whence = whence, !.off = off])

read_at(t, pos, n) == Enter(t, [Op("read_at") EXCEPT !.off = pos, !.n = n])

write_at(t, pos, buf) ==
    /\ pos + Len(buf) <= MaxSize
    /\ Enter(t, [Op("write_at") EXCEPT !.off = pos, !.buf = buf])

\* The handle of the twin run: self with the other no_lock, around the file f.
Twin(self, f) == [self EXCEPT !.no_lock = ~self.no_lock, !.file = f]

\* self.file.<op>(args): the forwarded call, with the outcome oc.
forward(t, oc) ==
    /\ pc[t] = "call"
    /\ Possible(op[t], oc)
    /\ LET r == LockedFile_apply(handle[t], disk, op[t], oc)
           s == File_apply(sfile[t], sdisk, op[t], oc)
           w == LockedFile_apply(Twin(handle[t], twin.file[t]), twin.disk, op[t], oc)
       IN /\ handle' = [handle EXCEPT ![t].file = r.file]
          /\ disk' = r.disk
          /\ ret' = [ret EXCEPT ![t] = r.res]
          /\ calls' = [calls EXCEPT ![t] = r.log]
          /\ sfile' = [sfile EXCEPT ![t] = s.file]
          /\ sdisk' = s.disk
          /\ sret' = [sret EXCEPT ![t] = s.res]
          /\ lastmod' = Modified(lastmod, disk, op[t], r.res)
          /\ twin' = [disk |-> w.disk,
                      file |-> [twin.file EXCEPT ![t] = w.file],
                      ret |-> [twin.ret EXCEPT ![t] = w.res]]
    /\ pc' = [pc EXCEPT ![t] = "drop"]
    /\ UNCHANGED <<DISK_LOCK, op, guard>>

\* The end of the method: _guard is dropped and the result is returned.
return(t) ==
    /\ pc[t] = "drop"
    /\ DISK_LOCK' = DropGuard(DISK_LOCK, t, guard[t])
    /\ guard' = [guard EXCEPT ![t] = "None"]
    /\ pc' = [pc EXCEPT ![t] = "idle"]
    /\ op' = [op EXCEPT ![t] = NoOp]
    /\ calls' = [calls EXCEPT ![t] = <<>>]
    /\ sret' = [sret EXCEPT ![t] = Pending]
    /\ UNCHANGED <<disk, handle, ret, sdisk, sfile, lastmod, twin>>

\* DISK_LOCK is pub: code outside this file can take it exclusively.
ext_write(e) ==
    /\ CanWrite(DISK_LOCK)
    /\ DISK_LOCK' = RwLock_write(DISK_LOCK, e)
    /\ UNCHANGED <<disk, handle, pc, op, guard, ret, calls, sdisk, sfile, sret, lastmod, twin>>

ext_unlock(e) ==
    /\ DISK_LOCK.writer = e
    /\ DISK_LOCK' = DropGuard(DISK_LOCK, e, "Write")
    /\ UNCHANGED <<disk, handle, pc, op, guard, ret, calls, sdisk, sfile, sret, lastmod, twin>>

\* ---------------------------------------------------------- specifications
\* Two threads, each with a handle of its own on the same storage; one-byte
\* arguments, and writes at the start of the file only.
Next ==
    \E t \in Threads :
        \/ new(t)
        \/ \E b \in BOOLEAN : new_lock(t, b)
        \/ metadata(t)
        \/ sync_all(t)
        \/ sync_data(t)
        \/ flush(t)
        \/ WriteAt_flush(t)
        \/ set_len(t, 0)
        \/ read(t, 1)
        \/ read_vectored(t, <<1>>)
        \/ handle[t].file.pos = 0 /\ write(t, <<1>>)
        \/ handle[t].file.pos = 0 /\ write_vectored(t, <<<<1>>>>)
        \/ seek(t, "Start", 0)
        \/ read_at(t, 0, 1)
        \/ write_at(t, 0, <<1>>)
        \/ \E oc \in {"ok", "EIO"} : forward(t, oc)
        \/ return(t)

Spec == Init /\ [][Next]_vars

\* The same two threads beside two outside users that take DISK_LOCK
\* exclusively; either may be the first to touch it.
NextExt ==
    \/ Next
    \/ \E e \in {"ext", "ext2"} : ext_write(e)
    \/ \E e \in {"ext", "ext2"} : ext_unlock(e)

SpecExt == Init /\ [][NextExt]_vars

\* Spec with the scheduling the claims about termination assume: a forwarded
\* call that has started returns, and a thread at the end of a method leaves it.
SpecFair ==
    /\ Spec
    /\ \A t \in Threads :
        /\ WF_vars(\E oc \in {"ok", "EIO"} : forward(t, oc))
        /\ WF_vars(return(t))

\* One thread and one handle, every argument within the bounds, every outcome.
NextSeq ==
    \/ new("t1")
    \/ \E b \in BOOLEAN : new_lock("t1", b)
    \/ metadata("t1")
    \/ sync_all("t1")
    \/ sync_data("t1")
    \/ flush("t1")
    \/ WriteAt_flush("t1")
    \/ \E size \in 0..MaxSize : set_len("t1", size)
    \/ \E n \in 0..MaxBuf : read("t1", n)
    \/ \E lens \in {<<1, 1>>} : read_vectored("t1", lens)
    \/ \E buf \in Strings(0, MaxBuf) : write("t1", buf)
    \/ \E bufs \in {<<<<1>>, <<0>>>>} : write_vectored("t1", bufs)
    \/ \E whence \in {"Start", "Current", "End"}, off \in -MaxSize..MaxSize :
            seek("t1", whence, off)
    \/ \E pos \in 0..MaxSize, n \in 0..MaxBuf : read_at("t1", pos, n)
    \/ \E pos \in 0..MaxSize, buf \in Strings(0, MaxBuf) : write_at("t1", pos, buf)
    \/ \E oc \in Outcomes : forward("t1", oc)
    \/ return("t1")

SpecSeq == Init /\ [][NextSeq]_vars

\* ------------------------------------------------------------------ claims
\* A handle built with no_lock = false.
Locking(t) == handle[t].made /\ ~handle[t].no_lock
\* A handle built with no_lock = true.
Bypassing(t) == handle[t].made /\ handle[t].no_lock

\* C1: while the forwarded call of a guarded operation on a no_lock = false
\* handle is in progress, the calling thread is among the shared holders of
\* DISK_LOCK.
C1_SharedHoldDuringCall ==
    \A t \in Threads :
        (Locking(t) /\ pc[t] = "call" /\ op[t].name \in Guarded)
            => t \in DISK_LOCK.readers

\* C2: operations issued through a LockedFile return, call by call, what the
\* same operations issued directly on the file return, and leave the same
\* content, length and cursor.
C2_SameAsDirect ==
    /\ disk = sdisk
    /\ \A t \in Threads :
        /\ handle[t].file = sfile[t]
        /\ pc[t] = "drop" => ret[t] = sret[t]

C2_Witness ==
    \E t \in Threads :
        /\ pc[t] = "drop" /\ op[t].name = "read_at" /\ op[t].off = 1
        /\ ret[t] = Ok(1, <<1>>) /\ op[t].cur = 0 /\ Len(disk) = 2

\* Every operation but a write, which the model holds back at MaxSize, can be
\* entered by thread t now.
CanEnterAny(t) ==
    /\ ENABLED metadata(t)
    /\ ENABLED sync_all(t)
    /\ ENABLED sync_data(t)
    /\ ENABLED flush(t)
    /\ ENABLED WriteAt_flush(t)
    /\ ENABLED set_len(t, 0)
    /\ ENABLED read(t, 1)
    /\ ENABLED read_vectored(t, <<1>>)
    /\ ENABLED seek(t, "Start", 0)
    /\ ENABLED read_at(t, 0, 1)
    /\ ENABLED write_at(t, 0, <<1>>)
    /\ handle[t].file.pos < MaxSize => ENABLED write(t, <<1>>)
    /\ handle[t].file.pos < MaxSize => ENABLED write_vectored(t, <<<<1>>>>)

\* C3: an operation on a no_lock = true handle never waits, whatever is held
\* on DISK_LOCK (an exclusive hold of outside code included), and no step of
\* it changes the holders of DISK_LOCK.
C3_BypassNeverWaits ==
    /\ [](\A t \in Threads : (Bypassing(t) /\ pc[t] = "idle") => CanEnterAny(t))
    /\ [](\A t \in Threads : (Bypassing(t) /\ pc[t] = "call") => ENABLED forward(t, "ok"))
    /\ [][\A t \in Threads :
            (Bypassing(t) /\ pc'[t] # pc[t]) => DISK_LOCK' = DISK_LOCK]_vars

C3_Witness ==
    \E t \in Threads :
        /\ Bypassing(t) /\ pc[t] = "call" /\ op[t].name = "write"
        /\ DISK_LOCK.writer = "ext"

\* C4: guarded operations of two no_lock = false handles are not serialized:
\* while one thread is inside its forwarded call the other can enter its own,
\* and when both are inside, either forwarded call can take effect first.
C4_NotSerialized ==
    \A t, u \in Threads :
        (t # u /\ Locking(t) /\ Locking(u) /\ pc[t] = "call" /\ op[t].name \in Guarded)
            => /\ pc[u] = "idle" => CanEnterAny(u)
               /\ pc[u] = "call" => ENABLED forward(t, "ok") /\ ENABLED forward(u, "ok")

C4_Witness ==
    /\ Locking("t1") /\ Locking("t2")
    /\ pc["t1"] = "call" /\ op["t1"].name = "set_len"
    /\ pc["t2"] = "call" /\ op["t2"].name = "write"
    /\ disk = <<1>>

\* C5: once a guarded operation has returned, with success or with an error,
\* its thread holds nothing on DISK_LOCK; when no operation is in progress
\* DISK_LOCK has no shared holder.
C5_ReleasedOnReturn ==
    /\ \A t \in Threads :
        pc[t] = "idle" =>
            /\ t \notin DISK_LOCK.readers
            /\ DISK_LOCK.writer # t
            /\ guard[t] = "None"
    /\ (\A t \in Threads : pc[t] = "idle") => DISK_LOCK.readers = {}

C5_Witness ==
    \E t \in Threads :
        /\ Locking(t) /\ pc[t] = "idle" /\ ret[t] = Err("EIO")
        /\ \A u \in Threads : pc[u] = "idle"

\* Where a read took its bytes from: the cursor for read, the offset for read_at.
ReadStart(o) == IF o.name = "read" THEN o.cur ELSE o.off

\* C6: a read or a read_at of N bytes at position P returns the N bytes the last
\* write or write_at stored at P, whichever of the two paths stored them.
C6_RoundTrip ==
    \A t \in Threads :
        ( /\ pc[t] = "drop" /\ op[t].name \in {"read", "read_at"} /\ ret[t].ok
          /\ lastmod.name \in {"write", "write_at"}
          /\ ReadStart(op[t]) = lastmod.pos
          /\ op[t].n = Len(lastmod.data) )
            => ret[t].buf = lastmod.data

C6_Witness ==
    \E t \in Threads :
        /\ pc[t] = "drop" /\ op[t].name = "read" /\ op[t].cur = 1
        /\ lastmod.name = "write_at" /\ lastmod.pos = 1
        /\ ret[t] = Ok(1, <<1>>) /\ lastmod.data = <<1>>
        /\ disk = <<0, 1>>

\* C7: read_at and write_at leave the stream cursor where it was, and give the
\* same result and the same content whatever the cursor is.
C7_PositionedIgnoresCursor ==
    \A t \in Threads :
        /\ (pc[t] = "drop" /\ op[t].name \in {"read_at", "write_at"})
                => handle[t].file.pos = op[t].cur
        /\ (pc[t] = "call" /\ op[t].name \in {"read_at", "write_at"})
                => \A c \in 0..MaxSize, oc \in Outcomes :
                      LET here == LockedFile_apply(handle[t], disk, op[t], oc)
                          there == LockedFile_apply(
                                     [handle[t] EXCEPT !.file.pos = c], disk, op[t], oc)
                      IN /\ there.res = here.res
                         /\ there.disk = here.disk
                         /\ there.file.pos = c

C7_Witness ==
    \E t \in Threads :
        /\ pc[t] = "drop" /\ op[t].name = "write_at" /\ op[t].off = 0
        /\ op[t].cur = 2 /\ ret[t] = Ok(1, <<>>) /\ handle[t].file.pos = 2

\* C8: after a successful set_len(size) the length metadata() reports is size,
\* and a set_len back to the length the file had before an extension leaves
\* the content the file had before the extension.
C8_SetLen ==
    /\ \A t \in Threads :
        (pc[t] = "drop" /\ op[t].name = "metadata" /\ ret[t].ok /\ lastmod.name = "set_len")
            => ret[t].n = lastmod.size
    /\ lastmod.name = "set_len" => Len(disk) = lastmod.size
    /\ (lastmod.name = "set_len" /\ lastmod.undo) => disk = lastmod.orig

C8_Witness ==
    \E t \in Threads :
        /\ pc[t] = "drop" /\ op[t].name = "metadata" /\ ret[t] = Ok(1, <<>>)
        /\ lastmod.name = "set_len" /\ lastmod.undo
        /\ lastmod.orig = <<1>> /\ lastmod.before = <<1, 0>>

\* C9: the forwarded call of sync_all, sync_data and flush changes neither the
\* content, the length nor the cursor, and carries no value but success or
\* failure.
C9_SyncChangesNothing ==
    [][\A t \in Threads :
        ( /\ pc[t] = "call" /\ pc'[t] = "drop"
          /\ op[t].name \in {"sync_all", "sync_data", "flush", "WriteAt_flush"} )
            => /\ disk' = disk
               /\ handle'[t].file = handle[t].file
               /\ ret'[t].n = 0 /\ ret'[t].buf = <<>>]_vars

C9_Witness ==
    \E t \in Threads :
        /\ pc[t] = "drop" /\ op[t].name = "sync_all" /\ ret[t] = Err("EIO")
        /\ disk = <<1, 1>> /\ handle[t].file.pos = 1

\* C10: a method makes one call on the underlying file and returns the result
\* of that call, error or not, as it is; there is no result before that call.
C10_ErrorsUnchanged ==
    \A t \in Threads :
        /\ pc[t] = "drop" => Len(calls[t]) = 1 /\ ret[t] = calls[t][1]
        /\ pc[t] = "call" => calls[t] = <<>> /\ ret[t] = Pending

C10_Witness ==
    \E t \in Threads :
        /\ pc[t] = "drop" /\ op[t].name = "write" /\ ret[t] = Err("EINTR")
        /\ calls[t] = <<Err("EINTR")>>

SeekTarget(o, d) ==
    o.off + (CASE o.name = "seek" /\ o.whence = "Start" -> 0
               [] o.name = "seek" /\ o.whence = "Current" -> o.cur
               [] OTHER -> Len(d))

\* C12: a read or a write that returns n moves the cursor by n; a read gives
\* fewer bytes than asked for only at the end of the file, where it gives 0 and
\* no error; seek returns the position asked for, from the start, the cursor or
\* the end, and sets the cursor to it. With locking enabled, a write at 0
\* followed by a seek to 0 and a read of as many bytes returns those bytes.
C12_CursorMaintained ==
    \A t \in Threads :
        pc[t] = "drop" =>
            /\ (op[t].name \in {"read", "read_vectored", "write", "write_vectored"} /\ ret[t].ok)
                    => handle[t].file.pos = op[t].cur + ret[t].n
            /\ (op[t].name = "write" /\ ret[t].ok) => ret[t].n <= Len(op[t].buf)
            /\ (op[t].name = "read" /\ ret[t].ok)
                    => /\ ret[t].n <= op[t].n
                       /\ Len(ret[t].buf) = ret[t].n
                       /\ ret[t].n < op[t].n => op[t].cur + ret[t].n >= Len(disk)
            /\ (op[t].name \in {"read", "write", "seek"} /\ ~ret[t].ok)
                    => /\ handle[t].file.pos = op[t].cur
                       /\ ret[t].err \in Errors
                            \/ (op[t].name = "seek" /\ SeekTarget(op[t], disk) < 0)
            /\ (op[t].name = "seek" /\ ret[t].ok)
                    => /\ ret[t].n = SeekTarget(op[t], disk)
                       /\ handle[t].file.pos = ret[t].n
            /\ ( /\ Locking(t) /\ op[t].name = "read" /\ ret[t].ok /\ op[t].cur = 0
                 /\ lastmod.name = "write" /\ lastmod.pos = 0
                 /\ op[t].n = Len(lastmod.data) )
                    => ret[t] = Ok(op[t].n, lastmod.data)

C12_Witness ==
    \E t \in Threads :
        /\ Locking(t) /\ pc[t] = "drop" /\ op[t].name = "read"
        /\ op[t].cur = 0 /\ op[t].n = 2 /\ ret[t] = Ok(2, <<1, 0>>)
        /\ lastmod.name = "write" /\ lastmod.pos = 0 /\ lastmod.data = <<1, 0>>
        /\ handle[t].file.pos = 2

\* C13: metadata() takes no hold on DISK_LOCK and never waits, whatever no_lock
\* is and whatever is held on DISK_LOCK, and changes neither the content, the
\* length nor the cursor.
C13_MetadataUnguarded ==
    /\ [](\A t \in Threads : (handle[t].made /\ pc[t] = "idle") => ENABLED metadata(t))
    /\ [](\A t \in Threads :
            (pc[t] # "idle" /\ op[t].name = "metadata")
                => /\ guard[t] = "None"
                   /\ t \notin DISK_LOCK.readers
                   /\ ENABLED (forward(t, "ok") \/ return(t)))
    /\ [][\A t \in Threads :
            (pc'[t] # pc[t] /\ "metadata" \in {op[t].name, op'[t].name})
                => /\ DISK_LOCK' = DISK_LOCK
                   /\ disk' = disk
                   /\ handle' = handle]_vars

C13_Witness ==
    /\ Locking("t1") /\ pc["t1"] = "drop" /\ op["t1"].name = "metadata"
    /\ ret["t1"] = Ok(1, <<>>) /\ DISK_LOCK.writer = "ext"
    /\ Bypassing("t2") /\ pc["t2"] = "call" /\ op["t2"].name = "metadata"

\* C14: lock() returns no guard whatever no_lock is, so DISK_LOCK has no
\* holder in any state the handles can reach.
C14_NeverHeld ==
    /\ DISK_LOCK.readers = {}
    /\ DISK_LOCK.writer = "none"
    /\ \A t \in Threads :
        /\ guard[t] = "None"
        /\ handle[t].made =>
              \A b \in BOOLEAN :
                  lock([handle[t] EXCEPT !.no_lock = b], DISK_LOCK, t).guard = "None"

C14_Witness ==
    /\ Locking("t1") /\ pc["t1"] = "call" /\ op["t1"].name = "sync_all"
    /\ Bypassing("t2") /\ pc["t2"] = "call" /\ op["t2"].name = "read"
    /\ DISK_LOCK.readers = {}

\* C15: no method of a handle asks for DISK_LOCK exclusively: the lock is never
\* held exclusively, no guard is an exclusive one, and a shared hold can be
\* granted however many shared holds there are.
C15_NeverExclusive ==
    /\ DISK_LOCK.writer = "none"
    /\ \A t \in Threads :
        /\ guard[t] # "Write"
        /\ handle[t].made =>
              /\ lock(handle[t], DISK_LOCK, t).guard # "Write"
              /\ lock(handle[t], DISK_LOCK, t).lk.writer = "none"
    /\ \A holders \in SUBSET Threads :
        Granted("Read", [DISK_LOCK EXCEPT !.readers = holders])

C15_Witness ==
    /\ Locking("t1") /\ pc["t1"] = "call" /\ op["t1"].name = "set_len"
    /\ Locking("t2") /\ pc["t2"] = "drop" /\ op["t2"].name = "sync_data"
    /\ DISK_LOCK.writer = "none"

\* C16: new(file) gives a handle with no_lock = false, new_lock(file, b) one
\* with no_lock = b; no step of a method changes no_lock, and the wrapped file
\* changes only by its own forwarded call.
C16_FlagFixed ==
    [][\A t \in Threads :
        /\ new(t) => (handle'[t].made /\ handle'[t].no_lock = FALSE)
        /\ \A b \in BOOLEAN :
              new_lock(t, b) => (handle'[t].made /\ handle'[t].no_lock = b)
        /\ handle[t].made =>
              /\ handle'[t].made
              /\ handle'[t].no_lock = handle[t].no_lock
              /\ handle'[t].file # handle[t].file
                    => (pc[t] = "call" /\ pc'[t] = "drop")]_vars

C16_Witness ==
    /\ Bypassing("t1") /\ pc["t1"] = "drop" /\ op["t1"].name = "write"
    /\ ret["t1"] = Ok(1, <<>>) /\ handle["t1"].file.pos = 1
    /\ Locking("t2") /\ pc["t2"] = "idle" /\ ret["t2"] = Ok(1, <<1>>)

\* C17: DISK_LOCK is built at most once, by the first access; a hold is always
\* a hold on the lock built then; the lock is never unbuilt or built again.
C17_InitOnce ==
    /\ [](DISK_LOCK.inits \in {0, 1})
    /\ []((DISK_LOCK.readers # {} \/ DISK_LOCK.writer # "none") => DISK_LOCK.inits = 1)
    /\ [][DISK_LOCK'.inits >= DISK_LOCK.inits]_vars

C17_Witness ==
    /\ DISK_LOCK.inits = 1 /\ DISK_LOCK.writer = "ext2"
    /\ Locking("t1") /\ pc["t1"] = "call" /\ op["t1"].name = "write_at"
    /\ Locking("t2") /\ pc["t2"] = "idle" /\ ret["t2"] = Ok(0, <<>>)

\* C18: every method that was entered returns; no state is a deadlock; a
\* thread inside a method never waits, a thread with a no_lock = true handle
\* never waits to enter one, and when no method is in progress no thread does.
C18_NoBlockingForever ==
    /\ \A t \in Threads : (pc[t] # "idle") ~> (pc[t] = "idle")
    /\ [](ENABLED Next)
    /\ [](\A t \in Threads :
            /\ pc[t] = "call" => ENABLED forward(t, "ok")
            /\ pc[t] = "drop" => ENABLED return(t)
            /\ (Bypassing(t) /\ pc[t] = "idle") => CanEnterAny(t)
            /\ (handle[t].made /\ \A u \in Threads : pc[u] = "idle") => CanEnterAny(t))

C18_Witness ==
    /\ Locking("t1") /\ pc["t1"] = "idle" /\ ret["t1"] = Err("EIO")
    /\ Bypassing("t2") /\ pc["t2"] = "idle" /\ ret["t2"] = Ok(1, <<>>)
    /\ disk = <<1>>

\* C19: a run and its twin, whose handles differ from the run's only in
\* no_lock, started on the same storage and given the same calls with the same
\* outcomes of the underlying file, agree at every step on the result of every
\* call and on the content and length of the storage and the cursor of every
\* file.
C19_FlagNoInfluence ==
    /\ twin.disk = disk
    /\ \A t \in Threads :
        /\ twin.file[t] = handle[t].file
        /\ twin.ret[t] = ret[t]

C19_Witness ==
    /\ Bypassing("t1") /\ pc["t1"] = "drop" /\ op["t1"].name = "write"
    /\ op["t1"].cur = 1 /\ ret["t1"] = Ok(1, <<>>) /\ twin.ret["t1"] = Ok(1, <<>>)
    /\ lastmod.name = "write" /\ disk = <<0, 1>> /\ twin.disk = <<0, 1>>
    /\ twin.file["t1"].pos = 2

====
